---- MODULE Spec2Model ----
(***************************************************************************)
(* A model of gigatar/file-encryption: pkg/encryption (EncryptFile,        *)
(* DecryptFile, generateSyntheticIV) and pkg/kdf (DeriveKey, GetKey).      *)
(*                                                                         *)
(* Files are byte sequences (bytes are 0..255).  One behaviour is one      *)
(* EncryptFile call on a plaintext file, followed, when it succeeded, by   *)
(* one DecryptFile call on the container or on a damaged copy of it.       *)
(* Every call into the operating system or a library is one step, and a    *)
(* call that can return an error has both outcomes.                        *)
(*                                                                         *)
(* The cryptographic primitives are libraries outside the repository       *)
(* (crypto/aes, crypto/cipher, x/crypto/argon2).  They are modelled by     *)
(* small arithmetic stand-ins with the same shape: the block cipher maps   *)
(* (key, block) to a 16-byte block, GCM is a keystream XOR followed by a   *)
(* 16-byte tag over (key, nonce, ciphertext body), and Open recomputes the *)
(* tag and compares it before it decrypts, as cipher.AEAD does.            *)
(*                                                                         *)
(* Spec is that behaviour.  SpecIV is one call of generateSyntheticIV on   *)
(* its own, and SpecKey one call of kdf.DefaultGetKey with its terminal.   *)
(***************************************************************************)
EXTENDS Integers, Sequences, FiniteSets, TLC

\* ---------------------------------------------------------------- sizes

\* Plaintext is read in blocks of chunkSize bytes.  The program uses
\* 64 * 1024; the model runs the same code on a smaller block, kept no
\* smaller than the nonce so that a first chunk can cover the whole nonce.
chunkSize == 12

\* The longest plaintext has MaxChunks full chunks and a remainder.
MaxChunks == 2

\* How many distinct values the random salt can take.
NumSalts == 2

\* The number of frames put together into a container by hand.
MaxSplice == 2

saltSize == 16

nonceSize == 12

blockSize == 16

tagSize == 16

lenSize == 4

counterSize == 8

keyLen == 32

\* ---------------------------------------------------------------- bytes

Min(a, b) == IF a < b THEN a ELSE b

RECURSIVE Pow2(_)
Pow2(n) == IF n = 0 THEN 1 ELSE 2 * Pow2(n - 1)

\* Bitwise exclusive or of two bytes (Go's ^ on byte).
RECURSIVE Xor(_, _)
Xor(a, b) ==
    IF a = 0 THEN b
    ELSE IF b = 0 THEN a
    ELSE ((a + b) % 2) + 2 * Xor(a \div 2, b \div 2)

Take(s, n) == SubSeq(s, 1, Min(n, Len(s)))

Zeros(n) == [i \in 1..n |-> 0]

RECURSIVE SumSeq(_, _)
SumSeq(s, i) == IF i > Len(s) THEN 0 ELSE s[i] + SumSeq(s, i + 1)

\* Sum of s[i] * (an odd weight depending on i and j).
RECURSIVE WSum(_, _, _)
WSum(s, j, i) ==
    IF i > Len(s) THEN 0
    ELSE (s[i] * (2 * (i + j) + 1) + WSum(s, j, i + 1)) % 256

\* binary.BigEndian.PutUint32(buf, uint32(v)): the top byte is taken
\* modulo 256, which is the truncation to 32 bits.
PutUint32(v) ==
    << (v \div 16777216) % 256, (v \div 65536) % 256, (v \div 256) % 256, v % 256 >>

\* binary.BigEndian.Uint32(buf).  The checker's integers stop at 2^31 - 1,
\* so a value with the top bit set is read as 2^31 - 1: every such value is
\* far beyond the size of any file of the model.
Uint32(b) ==
    IF b[1] >= 128 THEN 2147483647
    ELSE b[1] * 16777216 + b[2] * 65536 + b[3] * 256 + b[4]

\* binary.BigEndian.PutUint64 of a counter below 2^31: the four high bytes
\* are zero.
PutUint64(v) ==
    [k \in 1..counterSize |->
        IF k <= 4 THEN 0
        ELSE (v \div Pow2(8 * (counterSize - k))) % 256]

\* ------------------------------------------------------- library stand-ins

\* DeriveKey asking argon2.IDKey for 16 bytes.
DeriveKey_HalfLength(password, salt) ==
    [i \in 1..16 |->
        (SumSeq(password, 1) * 7 + Len(password) * 101
           + SumSeq(salt, 1) * 13 + i * 29) % 256]

\* argon2.IDKey(password, salt, 3, 65536, 1, 32) as called by DeriveKey.
DeriveKey(password, salt) ==
    [i \in 1..keyLen |->
        (SumSeq(password, 1) * 7 + Len(password) * 101
           + SumSeq(salt, 1) * 13 + i * 29) % 256]

\* aes.NewCipher accepts keys of 16, 24 or 32 bytes.
ValidKey(key) == Len(key) \in {16, 24, keyLen}

\* cipher.Block.Encrypt on one 16-byte block.
BlockEncrypt(key, block) ==
    [i \in 1..blockSize |->
        (key[i] * 5 + key[Len(key) - i + 1] * 3 + block[i] + i * 31 + 7) % 256]

\* GCM's counter-mode keystream byte i under (key, nonce).
Keystream(key, nonce, i) ==
    (key[((i - 1) % Len(key)) + 1] + WSum(nonce, 1, 1) + i * 59) % 256

\* GCM's tag over the ciphertext body under (key, nonce).
Tag(key, nonce, body) ==
    [j \in 1..tagSize |->
        (key[j] * 3 + key[Len(key) - j + 1] + WSum(nonce, j, 1)
           + WSum(body, j + nonceSize, 1) + Len(body) * (2 * j + 1)) % 256]

\* gcm.Seal(nil, nonce, plaintext, nil): body followed by the tag.
Seal(key, nonce, pt) ==
    LET body == [i \in 1..Len(pt) |-> Xor(pt[i], Keystream(key, nonce, i))]
    IN  body \o Tag(key, nonce, body)

\* gcm.Open(nil, nonce, ct, nil): an error unless the last 16 bytes are the
\* tag of the rest.
OpenOK(key, nonce, ct) ==
    /\ Len(ct) >= tagSize
    /\ LET body == SubSeq(ct, 1, Len(ct) - tagSize)
       IN  SubSeq(ct, Len(ct) - tagSize + 1, Len(ct)) = Tag(key, nonce, body)

Open(key, nonce, ct) ==
    [i \in 1..(Len(ct) - tagSize) |-> Xor(ct[i], Keystream(key, nonce, i))]

\* ------------------------------------------------------------- the files

\* os.File.Read(buf) with len(buf) = n on a regular file at offset pos:
\* the next min(n, remaining) bytes.
ReadAt(file, pos, n) == SubSeq(file, pos + 1, pos + Min(n, Len(file) - pos))

\* io.ReadFull(file, buf) with len(buf) = n at offset pos, as an error code.
ReadFullErr(file, pos, n) ==
    IF n = 0 \/ Len(file) - pos >= n THEN "nil"
    ELSE IF Len(file) = pos THEN "EOF"
    ELSE "ErrUnexpectedEOF"

\* What a failed Write may leave behind: nothing, or part of the buffer.
PartialWrites(b) == {Take(b, k) : k \in {0, Len(b) - 1} \cap (0..Len(b))}

\* ------------------------------------------------------------- the inputs

Salt(s) == [i \in 1..saltSize |-> (s * 17 + i * 3) % 256]

Salts == {Salt(s) : s \in 1..NumSalts}

\* The passphrase typed at encryption, and another one.
Passphrase == << 112, 119 >>

OtherPassphrase == << >>

Passwords == {Passphrase, OtherPassphrase}

\* A file that already exists at an output path.
OldOutput == << 170, 187 >>

PlainLens ==
    {k * chunkSize + r : k \in 0..MaxChunks, r \in {0, 1}} \cup {chunkSize - 1}

\* Ordinary content.
Text(len) == [i \in 1..len |-> (i * 7 + 65) % 256]

\* Content whose first bytes repeat the block cipher's image of the zero
\* block under one of the keys (any byte sequence can be a plaintext).
Crib(len) ==
    LET z == BlockEncrypt(DeriveKey(Passphrase, Salt(1)), Zeros(blockSize))
    IN  [i \in 1..len |-> IF i <= blockSize THEN z[i] ELSE (i * 11 + 3) % 256]

PlainTexts == {Text(n) : n \in PlainLens} \cup {Crib(n) : n \in PlainLens}

\* ---------------------------------------------------------------- state

VARIABLES
    pc,           \* the next call of the running operation
    inData,       \* the plaintext file given to EncryptFile
    password,     \* the passphrase behind kdf.GetKey during EncryptFile
    handles,      \* the file handles that are open
    failed,       \* per operation, the call that returned an error ("none")
    encOut,       \* the file at EncryptFile's output path
    enc,          \* EncryptFile's locals
    encErr,       \* EncryptFile's return value ("pending" until it returns)
    sealed,       \* the (nonce, chunk) pairs passed to gcm.Seal, in order
    damage,       \* what happened to the container before DecryptFile
    decIn,        \* the file given to DecryptFile
    decPassword,  \* the passphrase behind kdf.GetKey during DecryptFile
    decOut,       \* the file at DecryptFile's output path
    dec,          \* DecryptFile's locals
    decErr,       \* DecryptFile's return value ("pending" until it returns)
    kdf           \* DefaultGetKey: the terminal, its locals, what it returns

vars ==
    << pc, inData, password, handles, failed, encOut, enc, encErr, sealed,
       damage, decIn, decPassword, decOut, dec, decErr, kdf >>

encVars == << encOut, enc, encErr, sealed >>

decVars == << damage, decIn, decPassword, decOut, dec, decErr >>

\* DefaultGetKey not called: the terminal as the shell left it, no local
\* set, nothing returned.  (key << >> is the nil slice.)
KdfIdle ==
    [term |-> "cooked", salt |-> << >>, password |-> << >>, err |-> "nil",
     restores |-> 0, failed |-> "none", key |-> << >>, ret |-> "pending"]

Init ==
    /\ pc = "EncOpen"
    /\ inData \in PlainTexts
    /\ password = Passphrase
    /\ handles = {}
    /\ failed = [enc |-> "none", dec |-> "none"]
    /\ encOut = OldOutput
    /\ enc = [salt |-> << >>, key |-> << >>, pos |-> 0, chunk |-> << >>,
              nonce |-> << >>, ct |-> << >>, lenBuf |-> << >>,
              nonceCounter |-> 0, provided |-> << >>]
    /\ encErr = "pending"
    /\ sealed = << >>
    /\ damage = [kind |-> "none", pos |-> 0, bit |-> 0, order |-> << >>]
    /\ decIn = << >>
    /\ decPassword = << >>
    /\ decOut = OldOutput
    /\ dec = [salt |-> << >>, key |-> << >>, pos |-> 0, nonce |-> << >>,
              lenBuf |-> << >>, ct |-> << >>, pt |-> << >>,
              opens |-> 0, frames |-> 0, ctCap |-> 0, provided |-> << >>]
    /\ decErr = "pending"
    /\ kdf = KdfIdle

\* ----------------------------------------------------------- EncryptFile

\* return err, with the deferred inFile.Close() and outFile.Close().
EncReturn(err, call) ==
    /\ pc' = "EncDone"
    /\ encErr' = err
    /\ handles' = handles \ {"enc.in", "enc.out"}
    /\ failed' = IF call = "none" THEN failed ELSE [failed EXCEPT !.enc = call]

EncGoto(next) ==
    /\ pc' = next
    /\ UNCHANGED << encErr, handles, failed >>

\* EncWrite that empties the output file when a Write fails.
EncWrite_Rollback(b, call, next) ==
    \/ /\ encOut' = encOut \o b
       /\ EncGoto(next)
    \/ /\ encOut' = << >>
       /\ EncReturn("ErrWrite", call)

\* EncWrite with a Write that reports success and stores nothing.
EncWrite_Dropped(b, call, next) ==
    \/ /\ encOut' = encOut
       /\ EncGoto(next)
    \/ /\ encOut' \in {encOut \o w : w \in PartialWrites(b)}
       /\ EncReturn("ErrWrite", call)

\* outFile.Write(b) followed by `if err != nil { return err }`.
EncWrite(b, call, next) ==
    \/ /\ encOut' = encOut \o b
       /\ EncGoto(next)
    \/ /\ encOut' \in {encOut \o w : w \in PartialWrites(b)}
       /\ EncReturn("ErrWrite", call)

\* EncOpen with the error of os.Open dropped.
EncOpen_ErrorIgnored ==
    /\ pc = "EncOpen"
    /\ \/ /\ pc' = "EncCreate"
          /\ handles' = handles \cup {"enc.in"}
          /\ UNCHANGED << encErr, failed >>
       \/ /\ pc' = "EncCreate"
          /\ failed' = [failed EXCEPT !.enc = "os.Open"]
          /\ UNCHANGED << encErr, handles >>
    /\ UNCHANGED << inData, password, kdf, encOut, enc, sealed, decVars >>

\* EncOpen with the output created before the input is opened.
EncOpen_CreateFirst ==
    /\ pc = "EncOpen"
    /\ encOut' = << >>
    /\ \/ /\ pc' = "EncCreate"
          /\ handles' = handles \cup {"enc.in"}
          /\ UNCHANGED << encErr, failed >>
       \/ EncReturn("ErrNotExist", "os.Open")
    /\ UNCHANGED << inData, password, kdf, enc, sealed, decVars >>

\* inFile, err := os.Open(inName)
EncOpen ==
    /\ pc = "EncOpen"
    /\ \/ /\ pc' = "EncCreate"
          /\ handles' = handles \cup {"enc.in"}
          /\ UNCHANGED << encErr, failed >>
       \/ EncReturn("ErrNotExist", "os.Open")
    /\ UNCHANGED << inData, password, kdf, encOut, enc, sealed, decVars >>

\* EncCreate returning os.Create's error without closing inFile (the
\* defer placed after the second open).
EncCreate_LeakInput ==
    /\ pc = "EncCreate"
    /\ \/ /\ pc' = "EncSalt"
          /\ handles' = handles \cup {"enc.out"}
          /\ encOut' = << >>
          /\ UNCHANGED << encErr, failed >>
       \/ /\ pc' = "EncDone"
          /\ encErr' = "ErrCreate"
          /\ failed' = [failed EXCEPT !.enc = "os.Create"]
          /\ UNCHANGED << handles, encOut >>
    /\ UNCHANGED << inData, password, kdf, enc, sealed, decVars >>

\* outFile, err := os.Create(outName): the file is created or truncated.
EncCreate ==
    /\ pc = "EncCreate"
    /\ \/ /\ pc' = "EncSalt"
          /\ handles' = handles \cup {"enc.out"}
          /\ encOut' = << >>
          /\ UNCHANGED << encErr, failed >>
       \/ /\ EncReturn("ErrCreate", "os.Create")
          /\ UNCHANGED encOut
    /\ UNCHANGED << inData, password, kdf, enc, sealed, decVars >>

\* generateSalt(): 16 random bytes, or rand.Read's error.
generateSalt ==
    /\ pc = "EncSalt"
    /\ \/ /\ \E s \in Salts : enc' = [enc EXCEPT !.salt = s]
          /\ EncGoto("EncGetKey")
       \/ /\ EncReturn("ErrRand", "rand.Read")
          /\ UNCHANGED enc
    /\ UNCHANGED << inData, password, kdf, encOut, sealed, decVars >>

\* kdf.GetKey(salt): the provider derives the key from the passphrase, or
\* fails, or (a substituted provider) hands back a key of another length.
GetKey(pw, salt) == DeriveKey(pw, salt)

\* What one call of the provider was given and gave back: the key derived
\* from the passphrase, a key of another length, or an error and no key.
ProviderOutcomes(pw, salt) ==
    { [password |-> pw, salt |-> salt, outcome |-> "derived",
       key |-> GetKey(pw, salt)],
      [password |-> pw, salt |-> salt, outcome |-> "substituted",
       key |-> Take(GetKey(pw, salt), 5)],
      [password |-> pw, salt |-> salt, outcome |-> "error", key |-> << >>] }

\* EncGetKey with the salt written before the provider is called.
EncGetKey_SaltFirst ==
    /\ pc = "EncGetKey"
    /\ encOut' = encOut \o enc.salt
    /\ \E r \in ProviderOutcomes(password, enc.salt) :
          IF r.outcome = "error"
          THEN /\ enc' = [enc EXCEPT !.provided = Append(@, r)]
               /\ EncReturn("ErrGetKey", "kdf.GetKey")
          ELSE /\ enc' = [enc EXCEPT !.key = r.key, !.provided = Append(@, r)]
               /\ EncGoto("EncReadFirst")
    /\ UNCHANGED << inData, password, kdf, sealed, decVars >>

\* key, err := kdf.GetKey(salt)
EncGetKey ==
    /\ pc = "EncGetKey"
    /\ \E r \in ProviderOutcomes(password, enc.salt) :
          IF r.outcome = "error"
          THEN /\ enc' = [enc EXCEPT !.provided = Append(@, r)]
               /\ EncReturn("ErrGetKey", "kdf.GetKey")
          ELSE /\ enc' = [enc EXCEPT !.key = r.key, !.provided = Append(@, r)]
               /\ EncGoto("EncWriteSalt")
    /\ UNCHANGED << inData, password, kdf, encOut, sealed, decVars >>

\* outFile.Write(salt)
EncWriteSalt ==
    /\ pc = "EncWriteSalt"
    /\ EncWrite(enc.salt, "Write(salt)", "EncReadFirst")
    /\ UNCHANGED << inData, password, kdf, enc, sealed, decVars >>

\* EncReadFirst with `if err != nil` in place of
\* `if err != nil && err != io.EOF`.
EncReadFirst_EOFIsError ==
    /\ pc = "EncReadFirst"
    /\ \/ LET c == ReadAt(inData, enc.pos, chunkSize)
          IN  IF Len(c) = 0
              THEN /\ EncReturn("EOF", "Read(firstChunk)")
                   /\ UNCHANGED enc
              ELSE /\ enc' = [enc EXCEPT !.chunk = c, !.pos = @ + Len(c)]
                   /\ EncGoto("EncIV")
       \/ /\ EncReturn("ErrRead", "Read(firstChunk)")
          /\ UNCHANGED enc
    /\ UNCHANGED << inData, password, kdf, encOut, sealed, decVars >>

\* n, err := inFile.Read(firstChunk); io.EOF is not an error here.
EncReadFirst ==
    /\ pc = "EncReadFirst"
    /\ \/ /\ LET c == ReadAt(inData, enc.pos, chunkSize)
             IN  enc' = [enc EXCEPT !.chunk = c, !.pos = @ + Len(c)]
          /\ EncGoto("EncIV")
       \/ /\ EncReturn("ErrRead", "Read(firstChunk)")
          /\ UNCHANGED enc
    /\ UNCHANGED << inData, password, kdf, encOut, sealed, decVars >>

\* generateSyntheticIV with the loop bound `i < len(plainText)-1`.
generateSyntheticIV_OffByOne(key, plainText) ==
    LET blockCipherText == BlockEncrypt(key, Zeros(blockSize))
    IN  [i \in 1..nonceSize |->
            IF i < Len(plainText)
            THEN Xor(blockCipherText[i], plainText[i])
            ELSE blockCipherText[i]]

\* generateSyntheticIV(key, plainText): the first 12 bytes of the
\* encrypted zero block, XORed with up to 12 bytes of the plaintext.
generateSyntheticIV(key, plainText) ==
    LET blockCipherText == BlockEncrypt(key, Zeros(blockSize))
    IN  [i \in 1..nonceSize |->
            IF i <= Len(plainText)
            THEN Xor(blockCipherText[i], plainText[i])
            ELSE blockCipherText[i]]

\* EncIV with the length of the whole input mixed into the nonce.
EncIV_LengthMixed ==
    /\ pc = "EncIV"
    /\ IF ValidKey(enc.key)
       THEN /\ enc' = [enc EXCEPT !.nonce =
                        [generateSyntheticIV(enc.key, enc.chunk) EXCEPT
                            ![1] = Xor(@, Len(inData) % 256)]]
            /\ EncGoto("EncWriteNonce0")
       ELSE /\ EncReturn("ErrKeySize", "aes.NewCipher")
            /\ UNCHANGED enc
    /\ UNCHANGED << inData, password, kdf, encOut, sealed, decVars >>

\* nonce, err := generateSyntheticIV(key, firstChunk[:n]); aes.NewCipher
\* inside it rejects a key of the wrong length.
EncIV ==
    /\ pc = "EncIV"
    /\ IF ValidKey(enc.key)
       THEN /\ enc' = [enc EXCEPT !.nonce = generateSyntheticIV(enc.key, enc.chunk)]
            /\ EncGoto("EncWriteNonce0")
       ELSE /\ EncReturn("ErrKeySize", "aes.NewCipher")
            /\ UNCHANGED enc
    /\ UNCHANGED << inData, password, kdf, encOut, sealed, decVars >>

\* outFile.Write(nonce) for the first chunk
EncWriteNonce0 ==
    /\ pc = "EncWriteNonce0"
    /\ EncWrite(enc.nonce, "Write(nonce)", "EncNewCipher")
    /\ UNCHANGED << inData, password, kdf, enc, sealed, decVars >>

\* block, err := aes.NewCipher(key)
EncNewCipher ==
    /\ pc = "EncNewCipher"
    /\ IF ValidKey(enc.key)
       THEN EncGoto("EncNewGCM")
       ELSE EncReturn("ErrKeySize", "aes.NewCipher")
    /\ UNCHANGED << inData, password, kdf, encOut, enc, sealed, decVars >>

\* gcm, err := cipher.NewGCM(block)
EncNewGCM ==
    /\ pc = "EncNewGCM"
    /\ \/ EncGoto("EncSeal0")
       \/ EncReturn("ErrGCM", "cipher.NewGCM")
    /\ UNCHANGED << inData, password, kdf, encOut, enc, sealed, decVars >>

\* SealChunk with the length of the plaintext in the length buffer.
SealChunk_PlainLength ==
    /\ LET ct == Seal(enc.key, enc.nonce, enc.chunk)
       IN  enc' = [enc EXCEPT !.ct = ct, !.lenBuf = PutUint32(Len(enc.chunk))]
    /\ sealed' = Append(sealed, [nonce |-> enc.nonce, chunk |-> enc.chunk])

\* ct := gcm.Seal(nil, nonce, firstChunk[:n], nil) and the length buffer
\* binary.BigEndian.PutUint32(lenBuf, uint32(len(ct))).
SealChunk ==
    /\ LET ct == Seal(enc.key, enc.nonce, enc.chunk)
       IN  enc' = [enc EXCEPT !.ct = ct, !.lenBuf = PutUint32(Len(ct))]
    /\ sealed' = Append(sealed, [nonce |-> enc.nonce, chunk |-> enc.chunk])

EncSeal0 ==
    /\ pc = "EncSeal0"
    /\ SealChunk
    /\ EncGoto("EncWriteLen0")
    /\ UNCHANGED << inData, password, kdf, encOut, decVars >>

\* outFile.Write(lenBuf) for the first chunk
EncWriteLen0 ==
    /\ pc = "EncWriteLen0"
    /\ EncWrite(enc.lenBuf, "Write(lenBuf)", "EncWriteCt0")
    /\ UNCHANGED << inData, password, kdf, enc, sealed, decVars >>

\* outFile.Write(ct) for the first chunk; then nonceCounter := 0
EncWriteCt0 ==
    /\ pc = "EncWriteCt0"
    /\ EncWrite(enc.ct, "Write(ct)", "EncReadNext")
    /\ enc' = [enc EXCEPT !.nonceCounter = 0]
    /\ UNCHANGED << inData, password, kdf, sealed, decVars >>

\* EncReadNext taking a read shorter than the buffer for the end of the
\* input.
EncReadNext_DropShort ==
    /\ pc = "EncReadNext"
    /\ \/ LET c == ReadAt(inData, enc.pos, chunkSize)
          IN  IF Len(c) < chunkSize
              THEN /\ EncReturn("nil", "none")
                   /\ UNCHANGED enc
              ELSE /\ enc' = [enc EXCEPT
                          !.chunk = c,
                          !.pos = @ + Len(c),
                          !.nonce = Take(@, nonceSize - counterSize)
                                      \o PutUint64(enc.nonceCounter),
                          !.nonceCounter = @ + 1]
                   /\ EncGoto("EncWriteNonce")
       \/ /\ EncReturn("ErrRead", "Read(chunk)")
          /\ UNCHANGED enc
    /\ UNCHANGED << inData, password, kdf, encOut, sealed, decVars >>

\* EncReadNext incrementing the counter before it is put into the nonce.
EncReadNext_IncrementFirst ==
    /\ pc = "EncReadNext"
    /\ \/ LET c == ReadAt(inData, enc.pos, chunkSize)
          IN  IF Len(c) = 0
              THEN /\ EncReturn("nil", "none")
                   /\ UNCHANGED enc
              ELSE /\ enc' = [enc EXCEPT
                          !.chunk = c,
                          !.pos = @ + Len(c),
                          !.nonce = Take(@, nonceSize - counterSize)
                                      \o PutUint64(enc.nonceCounter + 1),
                          !.nonceCounter = @ + 1]
                   /\ EncGoto("EncWriteNonce")
       \/ /\ EncReturn("ErrRead", "Read(chunk)")
          /\ UNCHANGED enc
    /\ UNCHANGED << inData, password, kdf, encOut, sealed, decVars >>

\* EncReadNext without nonceCounter++.
EncReadNext_NoIncrement ==
    /\ pc = "EncReadNext"
    /\ \/ LET c == ReadAt(inData, enc.pos, chunkSize)
          IN  IF Len(c) = 0
              THEN /\ EncReturn("nil", "none")
                   /\ UNCHANGED enc
              ELSE /\ enc' = [enc EXCEPT
                          !.chunk = c,
                          !.pos = @ + Len(c),
                          !.nonce = Take(@, nonceSize - counterSize)
                                      \o PutUint64(enc.nonceCounter)]
                   /\ EncGoto("EncWriteNonce")
       \/ /\ EncReturn("ErrRead", "Read(chunk)")
          /\ UNCHANGED enc
    /\ UNCHANGED << inData, password, kdf, encOut, sealed, decVars >>

\* The head of the loop: read the next chunk, stop on zero bytes, else put
\* the counter into nonce[4:] and increment it.
EncReadNext ==
    /\ pc = "EncReadNext"
    /\ \/ LET c == ReadAt(inData, enc.pos, chunkSize)
          IN  IF Len(c) = 0
              THEN /\ EncReturn("nil", "none")
                   /\ UNCHANGED enc
              ELSE /\ enc' = [enc EXCEPT
                          !.chunk = c,
                          !.pos = @ + Len(c),
                          !.nonce = Take(@, nonceSize - counterSize)
                                      \o PutUint64(enc.nonceCounter),
                          !.nonceCounter = @ + 1]
                   /\ EncGoto("EncWriteNonce")
       \/ /\ EncReturn("ErrRead", "Read(chunk)")
          /\ UNCHANGED enc
    /\ UNCHANGED << inData, password, kdf, encOut, sealed, decVars >>

\* outFile.Write(nonce) in the loop
EncWriteNonce ==
    /\ pc = "EncWriteNonce"
    /\ EncWrite(enc.nonce, "Write(nonce)", "EncSeal")
    /\ UNCHANGED << inData, password, kdf, enc, sealed, decVars >>

\* EncSeal sealing under the base nonce instead of the nonce just written.
EncSeal_BaseNonce ==
    /\ pc = "EncSeal"
    /\ LET ct == Seal(enc.key, sealed[1].nonce, enc.chunk)
       IN  enc' = [enc EXCEPT !.ct = ct, !.lenBuf = PutUint32(Len(ct))]
    /\ sealed' = Append(sealed, [nonce |-> sealed[1].nonce, chunk |-> enc.chunk])
    /\ EncGoto("EncWriteLen")
    /\ UNCHANGED << inData, password, kdf, encOut, decVars >>

\* ct := gcm.Seal(nil, nonce, firstChunk[:n], nil) in the loop
EncSeal ==
    /\ pc = "EncSeal"
    /\ SealChunk
    /\ EncGoto("EncWriteLen")
    /\ UNCHANGED << inData, password, kdf, encOut, decVars >>

\* outFile.Write(lenBuf) in the loop
EncWriteLen ==
    /\ pc = "EncWriteLen"
    /\ EncWrite(enc.lenBuf, "Write(lenBuf)", "EncWriteCt")
    /\ UNCHANGED << inData, password, kdf, enc, sealed, decVars >>

\* outFile.Write(ct) in the loop
EncWriteCt ==
    /\ pc = "EncWriteCt"
    /\ EncWrite(enc.ct, "Write(ct)", "EncReadNext")
    /\ UNCHANGED << inData, password, kdf, enc, sealed, decVars >>

EncryptFile ==
    \/ EncOpen \/ EncCreate \/ generateSalt \/ EncGetKey \/ EncWriteSalt
    \/ EncReadFirst \/ EncIV \/ EncWriteNonce0 \/ EncNewCipher \/ EncNewGCM
    \/ EncSeal0 \/ EncWriteLen0 \/ EncWriteCt0
    \/ EncReadNext \/ EncWriteNonce \/ EncSeal \/ EncWriteLen \/ EncWriteCt

\* ------------------------------------------------- between the two calls

\* The offset in the container just after frame k (k = 0: after the salt).
RECURSIVE Boundary(_)
Boundary(k) ==
    IF k = 0 THEN saltSize
    ELSE Boundary(k - 1) + nonceSize + lenSize + Len(sealed[k].chunk) + tagSize

\* The bytes of frame k of the container.
FrameBytes(k) == SubSeq(encOut, Boundary(k - 1) + 1, Boundary(k))

\* A chunk that is no part of the input.
ForeignChunk == << 1, 2, 3 >>

\* A frame sealed under key that EncryptFile never wrote: ForeignChunk
\* under the all-zero nonce.
ForeignFrame(key) ==
    LET ct == Seal(key, Zeros(nonceSize), ForeignChunk)
    IN  Zeros(nonceSize) \o PutUint32(Len(ct)) \o ct

\* The frames picked by order, one after the other: k >= 1 is frame k of
\* the container, 0 the foreign frame.
RECURSIVE Splice(_, _)
Splice(order, i) ==
    IF i > Len(order) THEN << >>
    ELSE (IF order[i] = 0 THEN ForeignFrame(enc.key) ELSE FrameBytes(order[i]))
            \o Splice(order, i + 1)

\* The chunks behind the frames picked by order.
RECURSIVE SpliceChunks(_, _)
SpliceChunks(order, i) ==
    IF i > Len(order) THEN << >>
    ELSE (IF order[i] = 0 THEN ForeignChunk ELSE sealed[order[i]].chunk)
            \o SpliceChunks(order, i + 1)

\* Every choice of up to MaxSplice frames, in any order, repeats allowed.
SpliceOrders ==
    UNION {[1..n -> 0..Len(sealed)] : n \in 1..MaxSplice}

\* Byte pos of file with bit number bit inverted.
FlipBit(file, pos, bit) ==
    [file EXCEPT ![pos] = Xor(@, Pow2(bit))]

\* The container reaches DecryptFile as written, with one bit of a frame
\* inverted, cut short, or put together anew from its salt and frames
\* sealed under its key; the passphrase typed is the same or another one.
Handoff ==
    /\ pc = "EncDone"
    /\ encErr = "nil"
    /\ \/ /\ damage' = [kind |-> "none", pos |-> 0, bit |-> 0, order |-> << >>]
          /\ decIn' = encOut
          /\ decPassword' \in Passwords
       \/ \E pos \in (saltSize + 1)..Len(encOut), bit \in 0..7 :
             /\ damage' = [kind |-> "flip", pos |-> pos, bit |-> bit,
                          order |-> << >>]
             /\ decIn' = FlipBit(encOut, pos, bit)
             /\ decPassword' = password
       \/ \E n \in 0..(Len(encOut) - 1) :
             /\ damage' = [kind |-> "cut", pos |-> n, bit |-> 0, order |-> << >>]
             /\ decIn' = Take(encOut, n)
             /\ decPassword' = password
       \/ \E order \in SpliceOrders :
             /\ damage' = [kind |-> "splice", pos |-> 0, bit |-> 0,
                          order |-> order]
             /\ decIn' = Take(encOut, saltSize) \o Splice(order, 1)
             /\ decPassword' = password
    /\ pc' = "DecOpen"
    /\ UNCHANGED << inData, password, kdf, handles, failed, encVars, decOut, dec, decErr >>

\* ----------------------------------------------------------- DecryptFile

\* return err, with the deferred inFile.Close() and outFile.Close().
DecReturn(err, call) ==
    /\ pc' = "DecDone"
    /\ decErr' = err
    /\ handles' = handles \ {"dec.in", "dec.out"}
    /\ failed' = IF call = "none" THEN failed ELSE [failed EXCEPT !.dec = call]

DecGoto(next) ==
    /\ pc' = next
    /\ UNCHANGED << decErr, handles, failed >>

\* inFile, err := os.Open(inName)
DecOpen ==
    /\ pc = "DecOpen"
    /\ \/ /\ pc' = "DecCreate"
          /\ handles' = handles \cup {"dec.in"}
          /\ UNCHANGED << decErr, failed >>
       \/ DecReturn("ErrNotExist", "os.Open")
    /\ UNCHANGED << inData, password, kdf, encVars, damage, decIn, decPassword, decOut, dec >>

\* outFile, err := os.Create(outName): the file is created or truncated.
DecCreate ==
    /\ pc = "DecCreate"
    /\ \/ /\ pc' = "DecReadSalt"
          /\ handles' = handles \cup {"dec.out"}
          /\ decOut' = << >>
          /\ UNCHANGED << decErr, failed >>
       \/ /\ DecReturn("ErrCreate", "os.Create")
          /\ UNCHANGED decOut
    /\ UNCHANGED << inData, password, kdf, encVars, damage, decIn, decPassword, dec >>

\* io.ReadFull(inFile, buf) with len(buf) = n: the bytes and the new
\* offset when the file holds them, else the error ReadFull reports; or
\* the error of a read that failed.
DecReadFull(n, field, call, next) ==
    LET e == ReadFullErr(decIn, dec.pos, n)
    IN  \/ IF e = "nil"
           THEN /\ dec' = [dec EXCEPT ![field] = ReadAt(decIn, dec.pos, n),
                                      !.pos = @ + n]
                /\ DecGoto(next)
           ELSE /\ DecReturn(e, call)
                /\ UNCHANGED dec
        \/ /\ DecReturn("ErrRead", call)
           /\ UNCHANGED dec

\* DecReadSalt with inFile.Read in place of io.ReadFull: a short input
\* leaves the rest of the salt buffer zero and is no error.
DecReadSalt_ShortAccepted ==
    /\ pc = "DecReadSalt"
    /\ \/ /\ LET got == ReadAt(decIn, dec.pos, saltSize)
             IN  dec' = [dec EXCEPT !.salt = got \o Zeros(saltSize - Len(got)),
                                    !.pos = @ + Len(got)]
          /\ DecGoto("DecGetKey")
       \/ /\ DecReturn("ErrRead", "ReadFull(salt)")
          /\ UNCHANGED dec
    /\ UNCHANGED << inData, password, kdf, encVars, damage, decIn, decPassword, decOut >>

\* salt := make([]byte, saltSize); io.ReadFull(inFile, salt)
DecReadSalt ==
    /\ pc = "DecReadSalt"
    /\ DecReadFull(saltSize, "salt", "ReadFull(salt)", "DecGetKey")
    /\ UNCHANGED << inData, password, kdf, encVars, damage, decIn, decPassword, decOut >>

\* key, err := kdf.GetKey(salt)
DecGetKey ==
    /\ pc = "DecGetKey"
    /\ \E r \in ProviderOutcomes(decPassword, dec.salt) :
          IF r.outcome = "error"
          THEN /\ dec' = [dec EXCEPT !.provided = Append(@, r)]
               /\ DecReturn("ErrGetKey", "kdf.GetKey")
          ELSE /\ dec' = [dec EXCEPT !.key = r.key, !.provided = Append(@, r)]
               /\ DecGoto("DecNewCipher")
    /\ UNCHANGED << inData, password, kdf, encVars, damage, decIn, decPassword, decOut >>

\* block, err := aes.NewCipher(key)
DecNewCipher ==
    /\ pc = "DecNewCipher"
    /\ IF ValidKey(dec.key)
       THEN DecGoto("DecNewGCM")
       ELSE DecReturn("ErrKeySize", "aes.NewCipher")
    /\ UNCHANGED << inData, password, kdf, encVars, damage, decIn, decPassword, decOut, dec >>

\* gcm, err := cipher.NewGCM(block); if err != nil { return nil }
DecNewGCM ==
    /\ pc = "DecNewGCM"
    /\ \/ DecGoto("DecReadNonce")
       \/ DecReturn("nil", "cipher.NewGCM")
    /\ UNCHANGED << inData, password, kdf, encVars, damage, decIn, decPassword, decOut, dec >>

\* DecReadNonce ending the loop on a partial nonce as well.
DecReadNonce_PartialIsEnd ==
    /\ pc = "DecReadNonce"
    /\ LET e == ReadFullErr(decIn, dec.pos, nonceSize)
       IN  \/ IF e = "nil"
              THEN /\ dec' = [dec EXCEPT
                          !.nonce = ReadAt(decIn, dec.pos, nonceSize),
                          !.pos = @ + nonceSize]
                   /\ DecGoto("DecReadLen")
              ELSE /\ DecReturn("nil", "none")
                   /\ UNCHANGED dec
           \/ /\ DecReturn("ErrRead", "ReadFull(nonce)")
              /\ UNCHANGED dec
    /\ UNCHANGED << inData, password, kdf, encVars, damage, decIn, decPassword, decOut >>

\* DecReadNonce returning io.EOF like any other read error.
DecReadNonce_EOFIsError ==
    /\ pc = "DecReadNonce"
    /\ LET e == ReadFullErr(decIn, dec.pos, nonceSize)
       IN  \/ IF e = "nil"
              THEN /\ dec' = [dec EXCEPT
                          !.nonce = ReadAt(decIn, dec.pos, nonceSize),
                          !.pos = @ + nonceSize]
                   /\ DecGoto("DecReadLen")
              ELSE /\ DecReturn(e, "ReadFull(nonce)")
                   /\ UNCHANGED dec
           \/ /\ DecReturn("ErrRead", "ReadFull(nonce)")
              /\ UNCHANGED dec
    /\ UNCHANGED << inData, password, kdf, encVars, damage, decIn, decPassword, decOut >>

\* The head of the loop: io.ReadFull(inFile, nonce); io.EOF ends the loop
\* and the function returns nil, any other error is returned.
DecReadNonce ==
    /\ pc = "DecReadNonce"
    /\ LET e == ReadFullErr(decIn, dec.pos, nonceSize)
       IN  \/ IF e = "nil"
              THEN /\ dec' = [dec EXCEPT
                          !.nonce = ReadAt(decIn, dec.pos, nonceSize),
                          !.pos = @ + nonceSize]
                   /\ DecGoto("DecReadLen")
              ELSE /\ IF e = "EOF"
                      THEN DecReturn("nil", "none")
                      ELSE DecReturn(e, "ReadFull(nonce)")
                   /\ UNCHANGED dec
           \/ /\ DecReturn("ErrRead", "ReadFull(nonce)")
              /\ UNCHANGED dec
    /\ UNCHANGED << inData, password, kdf, encVars, damage, decIn, decPassword, decOut >>

\* io.ReadFull(inFile, lenBuf)
DecReadLen ==
    /\ pc = "DecReadLen"
    /\ DecReadFull(lenSize, "lenBuf", "ReadFull(lenBuf)", "DecReadCt")
    /\ UNCHANGED << inData, password, kdf, encVars, damage, decIn, decPassword, decOut >>

\* ctLen := binary.BigEndian.Uint32(lenBuf); ct := make([]byte, ctLen);
\* io.ReadFull(inFile, ct)
\* (ctCap is the size of the buffer that make allocated.)
DecReadCt ==
    /\ pc = "DecReadCt"
    /\ LET ctLen == Uint32(dec.lenBuf)
           e == ReadFullErr(decIn, dec.pos, ctLen)
       IN  \/ IF e = "nil"
              THEN /\ dec' = [dec EXCEPT !.ct = ReadAt(decIn, dec.pos, ctLen),
                                         !.pos = @ + ctLen,
                                         !.ctCap = ctLen]
                   /\ DecGoto("DecOpenFrame")
              ELSE /\ dec' = [dec EXCEPT !.ctCap = ctLen]
                   /\ DecReturn(e, "ReadFull(ct)")
           \/ /\ dec' = [dec EXCEPT !.ctCap = ctLen]
              /\ DecReturn("ErrRead", "ReadFull(ct)")
    /\ UNCHANGED << inData, password, kdf, encVars, damage, decIn, decPassword, decOut >>

\* DecOpenFrame with the error of gcm.Open dropped.
DecOpenFrame_Unchecked ==
    /\ pc = "DecOpenFrame"
    /\ dec' = [dec EXCEPT !.pt = Open(dec.key, dec.nonce, dec.ct),
                          !.opens = @ + 1, !.frames = @ + 1]
    /\ DecGoto("DecWrite")
    /\ UNCHANGED << inData, password, kdf, encVars, damage, decIn, decPassword, decOut >>

\* DecOpenFrame writing what Open left in pt before it looks at the error.
DecOpenFrame_WriteFirst ==
    /\ pc = "DecOpenFrame"
    /\ IF OpenOK(dec.key, dec.nonce, dec.ct)
       THEN /\ dec' = [dec EXCEPT !.pt = Open(dec.key, dec.nonce, dec.ct),
                                  !.opens = @ + 1, !.frames = @ + 1]
            /\ DecGoto("DecWrite")
            /\ UNCHANGED decOut
       ELSE /\ dec' = [dec EXCEPT !.opens = @ + 1]
            /\ decOut' = decOut \o Open(dec.key, dec.nonce, dec.ct)
            /\ DecReturn("ErrAuth", "gcm.Open")
    /\ UNCHANGED << inData, password, kdf, encVars, damage, decIn, decPassword >>

\* DecOpenFrame skipping a frame that fails to authenticate.
DecOpenFrame_SkipFrame ==
    /\ pc = "DecOpenFrame"
    /\ IF OpenOK(dec.key, dec.nonce, dec.ct)
       THEN /\ dec' = [dec EXCEPT !.pt = Open(dec.key, dec.nonce, dec.ct),
                                  !.opens = @ + 1, !.frames = @ + 1]
            /\ DecGoto("DecWrite")
       ELSE /\ dec' = [dec EXCEPT !.opens = @ + 1]
            /\ DecGoto("DecReadNonce")
    /\ UNCHANGED << inData, password, kdf, encVars, damage, decIn, decPassword, decOut >>

\* DecOpenFrame holding each frame after the first to the counter its
\* place in the stream calls for.
DecOpenFrame_CheckCounter ==
    /\ pc = "DecOpenFrame"
    /\ IF /\ OpenOK(dec.key, dec.nonce, dec.ct)
          /\ \/ dec.frames = 0
             \/ SubSeq(dec.nonce, nonceSize - counterSize + 1, nonceSize)
                    = PutUint64(dec.frames - 1)
       THEN /\ dec' = [dec EXCEPT !.pt = Open(dec.key, dec.nonce, dec.ct),
                                  !.opens = @ + 1, !.frames = @ + 1]
            /\ DecGoto("DecWrite")
       ELSE /\ dec' = [dec EXCEPT !.opens = @ + 1]
            /\ DecReturn("ErrAuth", "gcm.Open")
    /\ UNCHANGED << inData, password, kdf, encVars, damage, decIn, decPassword, decOut >>

\* pt, err := gcm.Open(nil, nonce, ct, nil); if err != nil { return err }
DecOpenFrame ==
    /\ pc = "DecOpenFrame"
    /\ IF OpenOK(dec.key, dec.nonce, dec.ct)
       THEN /\ dec' = [dec EXCEPT !.pt = Open(dec.key, dec.nonce, dec.ct),
                                  !.opens = @ + 1, !.frames = @ + 1]
            /\ DecGoto("DecWrite")
       ELSE /\ dec' = [dec EXCEPT !.opens = @ + 1]
            /\ DecReturn("ErrAuth", "gcm.Open")
    /\ UNCHANGED << inData, password, kdf, encVars, damage, decIn, decPassword, decOut >>

\* outFile.Write(pt); if err != nil { return err }
DecWrite ==
    /\ pc = "DecWrite"
    /\ \/ /\ decOut' = decOut \o dec.pt
          /\ DecGoto("DecReadNonce")
       \/ /\ decOut' \in {decOut \o w : w \in PartialWrites(dec.pt)}
          /\ DecReturn("ErrWrite", "Write(pt)")
    /\ UNCHANGED << inData, password, kdf, encVars, damage, decIn, decPassword, dec >>

DecryptFile ==
    \/ DecOpen \/ DecCreate \/ DecReadSalt \/ DecGetKey \/ DecNewCipher
    \/ DecNewGCM \/ DecReadNonce \/ DecReadLen \/ DecReadCt \/ DecOpenFrame
    \/ DecWrite

Next == EncryptFile \/ Handoff \/ DecryptFile


Spec == Init /\ [][Next]_vars

\* ------------------------------------------------------------ properties

\* The return values that report a failure of the environment (the file
\* system, the random source, the key provider, a constructor), as opposed
\* to those that report on the content of the input.
EnvErrors ==
    {"ErrNotExist", "ErrCreate", "ErrRand", "ErrGetKey", "ErrKeySize",
     "ErrGCM", "ErrRead", "ErrWrite"}

EncEnvFault == encErr \in EnvErrors

DecEnvFault == decErr \in EnvErrors \/ failed.dec = "cipher.NewGCM"

Boundaries == {Boundary(k) : k \in 0..Len(sealed)}

\* The plaintext chunks 1..k sealed so far, concatenated.
RECURSIVE Chunks(_)
Chunks(k) == IF k = 0 THEN << >> ELSE Chunks(k - 1) \o sealed[k].chunk

DecReturned == pc = "DecDone"

\* C1: round trip.  When EncryptFile has written a container for P and
\* DecryptFile reads that container with a provider returning the same key
\* for the same salt, and no call into the environment fails, DecryptFile
\* returns nil and its output is exactly P.
C1_RoundTrip ==
    (DecReturned /\ damage.kind = "none" /\ decPassword = password
        /\ ~DecEnvFault)
    => (decErr = "nil" /\ decOut = inData)

\* C1 witness: a plaintext of several chunks and a remainder came back.
C1_Witness ==
    /\ DecReturned /\ damage.kind = "none" /\ decPassword = password
    /\ decErr = "nil" /\ decOut = inData
    /\ Len(inData) > MaxChunks * chunkSize
    /\ dec.frames = MaxChunks + 1

\* C2: tamper detection.  When one bit of a frame (nonce, length field or
\* ciphertext) is inverted and DecryptFile runs with the right key, it never
\* returns nil from its loop, and when no call into the environment
\* fails it returns an authentication or format error.
C2_TamperDetected ==
    (DecReturned /\ damage.kind = "flip")
    => /\ failed.dec = "none" => decErr # "nil"
       /\ ~DecEnvFault => decErr \in {"ErrAuth", "EOF", "ErrUnexpectedEOF"}

\* C2 witness: a bit inverted in the second frame or later failed
\* authentication after the first frame had been accepted.
C2_Witness ==
    /\ DecReturned /\ damage.kind = "flip" /\ decErr = "ErrAuth"
    /\ damage.pos > Boundary(1) /\ dec.frames >= 1

\* C3: no two chunks of one EncryptFile run are sealed under the same
\* nonce (chunk 0 and chunk 1 included).
C3_NonceNeverReused ==
    \A i, j \in 1..Len(sealed) :
        i # j => sealed[i].nonce # sealed[j].nonce

\* C4: the empty file.  EncryptFile on zero bytes, when no call into the
\* environment fails, returns nil and leaves 48 bytes: the 16-byte salt,
\* a 12-byte nonce, the length field 0,0,0,16 and 16 bytes of ciphertext;
\* DecryptFile on that container returns nil with an empty output.
C4_EmptyFile ==
    /\ (pc = "EncDone" /\ inData = << >> /\ ~EncEnvFault)
       => /\ encErr = "nil"
          /\ Len(encOut) = 48
          /\ SubSeq(encOut, 1, 16) = enc.salt
          /\ SubSeq(encOut, 17, 28) = sealed[1].nonce
          /\ SubSeq(encOut, 29, 32) = << 0, 0, 0, 16 >>
          /\ Len(sealed) = 1
          /\ sealed[1].chunk = << >>
          /\ OpenOK(enc.key, SubSeq(encOut, 17, 28), SubSeq(encOut, 33, 48))
    /\ (DecReturned /\ inData = << >> /\ damage.kind = "none"
          /\ decPassword = password /\ ~DecEnvFault)
       => (decErr = "nil" /\ decOut = << >> /\ dec.frames = 1)

\* C4 witness: the empty file was encrypted and decrypted.
C4_Witness ==
    /\ DecReturned /\ inData = << >> /\ damage.kind = "none"
    /\ decErr = "nil" /\ decOut = << >> /\ Len(decIn) = 48

\* C5: wrong key.  When the provider returns at decryption a key other
\* than the one used at encryption, DecryptFile never writes a byte to
\* its output, and when no call into the environment fails it returns the
\* authentication error of frame 0.
C5_WrongKey ==
    (pc \notin {"EncDone"} /\ encErr = "nil" /\ decPassword # password)
    => /\ decOut \in {OldOutput, << >>}
       /\ (DecReturned /\ ~DecEnvFault)
          => (decErr = "ErrAuth" /\ dec.opens = 1 /\ dec.frames = 0
                /\ decOut = << >>)

\* C5 witness: a container of several frames was rejected at frame 0
\* under the other passphrase.
C5_Witness ==
    /\ DecReturned /\ decPassword # password /\ decErr = "ErrAuth"
    /\ dec.key # enc.key /\ Len(sealed) > 1 /\ dec.opens = 1

\* C6: an authentication failure is fatal and not retracted.  As soon as
\* a frame has failed to authenticate, DecryptFile has returned the
\* authentication error; the failing frame is the last one it looked at,
\* and its output holds the plaintexts of the frames before it.
C6_AuthFailureFatal ==
    /\ dec.opens > dec.frames
       => (DecReturned /\ decErr = "ErrAuth" /\ dec.opens = dec.frames + 1)
    /\ (DecReturned /\ decErr = "ErrAuth")
       => /\ dec.frames <= Len(sealed)
          /\ decOut = Chunks(dec.frames)
          /\ dec.pos <= Len(decIn)

\* C6 witness: frame 1 failed after frame 0 was written, and the
\* plaintext of frame 0 is still in the output.
C6_Witness ==
    /\ DecReturned /\ decErr = "ErrAuth" /\ dec.frames = 1
    /\ decOut = sealed[1].chunk /\ Len(decOut) = chunkSize

\* C7: every failure is reported.  Once a call of EncryptFile or
\* DecryptFile has returned an error, the operation has returned, and
\* what it returned is not nil.
C7_EveryFailureReported ==
    /\ failed.enc # "none" => (pc = "EncDone" /\ encErr \notin {"nil", "pending"})
    /\ failed.dec # "none" => (pc = "DecDone" /\ decErr \notin {"nil", "pending"})

\* C8: end of stream.  For a container cut at any offset from the end of
\* the salt on (or not cut), read with the right key and no failing call
\* into the environment, DecryptFile returns nil exactly when the file
\* ends on a frame boundary, and otherwise the end-of-file error of the
\* read that came up short.
C8_EndOfStream ==
    (DecReturned /\ damage.kind \in {"none", "cut"} /\ decPassword = password
        /\ Len(decIn) >= saltSize /\ ~DecEnvFault)
    => /\ decErr = "nil" <=> Len(decIn) \in Boundaries
       /\ decErr # "nil" => decErr \in {"EOF", "ErrUnexpectedEOF"}
       /\ decErr = "nil" => dec.pos = Len(decIn)

\* C8 witness: the stream ended right after a nonce, before the first
\* byte of the length field, and DecryptFile returned an error.
C8_Witness ==
    /\ DecReturned /\ damage.kind = "cut"
    /\ Len(decIn) = Boundary(1) + nonceSize
    /\ failed.dec = "ReadFull(lenBuf)" /\ decErr = "EOF"

\* Frame k of the container, read off the output file by offsets.
FrameAt(k) ==
    LET o == Boundary(k - 1)
        n == Len(sealed[k].chunk)
    IN  [nonce  |-> SubSeq(encOut, o + 1, o + nonceSize),
         length |-> encOut[o + 13] * 16777216 + encOut[o + 14] * 65536
                      + encOut[o + 15] * 256 + encOut[o + 16],
         ct     |-> SubSeq(encOut, o + nonceSize + lenSize + 1,
                           o + nonceSize + lenSize + n + tagSize)]

\* C9: container layout.  After EncryptFile has returned nil the output is
\* the salt followed by one frame per chunk in input order; the nonce
\* written is the nonce the chunk was sealed under, the length field is
\* the chunk's length plus 16 (never more than the chunk size plus 16),
\* and the ciphertext is the sealed chunk.
C9_ContainerLayout ==
    (pc = "EncDone" /\ encErr = "nil")
    => /\ SubSeq(encOut, 1, saltSize) = enc.salt
       /\ Len(encOut) = Boundary(Len(sealed))
       /\ Chunks(Len(sealed)) = inData
       /\ \A k \in 1..Len(sealed) :
            /\ Len(sealed[k].chunk) <= chunkSize
            /\ FrameAt(k).nonce = sealed[k].nonce
            /\ FrameAt(k).length = Len(sealed[k].chunk) + 16
            /\ FrameAt(k).length <= chunkSize + 16
            /\ FrameAt(k).ct = Seal(enc.key, sealed[k].nonce, sealed[k].chunk)

\* C9 witness: a container of three frames, the last one short.
C9_Witness ==
    /\ pc = "EncDone" /\ encErr = "nil" /\ Len(sealed) = MaxChunks + 1
    /\ Len(sealed[MaxChunks + 1].chunk) = 1
    /\ FrameAt(MaxChunks + 1).length = 17

\* C10: open failures.  When the input cannot be opened or the output
\* cannot be created, EncryptFile and DecryptFile have returned, and what
\* they returned is an error.
C10_OpenFailures ==
    /\ failed.enc \in {"os.Open", "os.Create"}
       => (pc = "EncDone" /\ encErr \in {"ErrNotExist", "ErrCreate"})
    /\ failed.dec \in {"os.Open", "os.Create"}
       => (pc = "DecDone" /\ decErr \in {"ErrNotExist", "ErrCreate"})

\* C10 witness: DecryptFile could not create its output and said so.
C10_Witness ==
    /\ failed.dec = "os.Create" /\ decErr = "ErrCreate" /\ pc = "DecDone"
    /\ decOut = OldOutput

\* The provider calls of both operations, in order.
ProviderCalls == enc.provided \o dec.provided

DerivedCalls == {i \in 1..Len(ProviderCalls) : ProviderCalls[i].outcome = "derived"}

C12_CounterNoncesDistinct ==
    \A i, j \in 2..Len(sealed) :
        i # j => sealed[i].nonce # sealed[j].nonce

\* C12 witness: at least two chunks after the first were sealed.
C12_Witness ==
    /\ Len(sealed) >= 3
    /\ sealed[2].nonce # sealed[3].nonce

\* C13: bounded buffers.  No chunk buffer of EncryptFile or DecryptFile is
\* larger than the chunk size plus the 16-byte tag; in particular the
\* ciphertext buffer DecryptFile allocates is.
C13_BoundedBuffers ==
    /\ Len(enc.chunk) <= chunkSize
    /\ Len(enc.ct) <= chunkSize + tagSize
    /\ dec.ctCap <= chunkSize + tagSize

\* C14: handle release.  Once EncryptFile has returned, on any path, none
\* of its file handles is open, and the same for DecryptFile.
C14_HandlesReleased ==
    /\ encErr # "pending" => handles \cap {"enc.in", "enc.out"} = {}
    /\ decErr # "pending" => handles \cap {"dec.in", "dec.out"} = {}
    /\ pc \in {"EncDone", "DecOpen", "DecDone"} => handles = {}

\* C14 witness: the output could not be created after the input had been
\* opened, and nothing is left open.
C14_Witness ==
    /\ failed.enc = "os.Create" /\ encErr = "ErrCreate" /\ handles = {}

\* C15: the output differs from the input.  The container a successful
\* EncryptFile leaves is never the same byte sequence as the plaintext.
C15_OutputDiffers ==
    (pc = "EncDone" /\ encErr = "nil") => encOut # inData

\* C15 witness: a non-empty plaintext was encrypted.
C15_Witness ==
    /\ pc = "EncDone" /\ encErr = "nil" /\ Len(inData) = chunkSize
    /\ encOut # inData

\* C16: counter nonces.  The nonce chunk i >= 1 is sealed under is the
\* first 4 bytes of chunk 0's nonce followed by the 64-bit big-endian
\* number i - 1, and it is the nonce written in that chunk's frame.
C16_CounterNonce ==
    /\ \A k \in 2..Len(sealed) :
          sealed[k].nonce =
             SubSeq(sealed[1].nonce, 1, 4) \o << 0, 0, 0, 0, 0, 0, 0, k - 2 >>
    /\ (pc = "EncDone" /\ encErr = "nil")
       => \A k \in 2..Len(sealed) :
             FrameAt(k).nonce =
                SubSeq(FrameAt(1).nonce, 1, 4) \o << 0, 0, 0, 0, 0, 0, 0, k - 2 >>

\* C16 witness: chunk 2 was written under counter 1.
C16_Witness ==
    /\ pc = "EncDone" /\ encErr = "nil" /\ Len(sealed) >= 3
    /\ FrameAt(3).nonce[nonceSize] = 1
    /\ FrameAt(2).nonce[nonceSize] = 0

\* ---- generateSyntheticIV called on its own ----

\* Keys handed to generateSyntheticIV: every derived key, and one of a size
\* aes.NewCipher rejects.
IVKeys ==
    {DeriveKey(pw, Salt(n)) : pw \in Passwords, n \in 1..NumSalts}
        \cup {Take(DeriveKey(Passphrase, Salt(1)), 5)}

\* Text(len) with other bytes after the first nonceSize.
TextTail(len) ==
    [i \in 1..len |-> IF i <= nonceSize THEN Text(len)[i] ELSE (i * 13 + 200) % 256]

\* First chunks handed to generateSyntheticIV: empty, shorter than the
\* nonce, as long, and longer.
IVChunks ==
    UNION {{Text(n), Crib(n), TextTail(n), Zeros(n)} : n \in 0..(nonceSize + lenSize)}

InitIV ==
    /\ pc = "generateSyntheticIV"
    /\ inData = << >>
    /\ password = Passphrase
    /\ handles = {}
    /\ failed = [enc |-> "none", dec |-> "none"]
    /\ encOut = OldOutput
    /\ \E k \in IVKeys, c \in IVChunks :
          enc = [salt |-> << >>, key |-> k, pos |-> 0, chunk |-> c,
                 nonce |-> << >>, ct |-> << >>, lenBuf |-> << >>,
                 nonceCounter |-> 0, provided |-> << >>]
    /\ encErr = "pending"
    /\ sealed = << >>
    /\ damage = [kind |-> "none", pos |-> 0, bit |-> 0, order |-> << >>]
    /\ decIn = << >>
    /\ decPassword = << >>
    /\ decOut = OldOutput
    /\ dec = [salt |-> << >>, key |-> << >>, pos |-> 0, nonce |-> << >>,
              lenBuf |-> << >>, ct |-> << >>, pt |-> << >>,
              opens |-> 0, frames |-> 0, ctCap |-> 0, provided |-> << >>]
    /\ decErr = "pending"
    /\ kdf = KdfIdle

\* One call generateSyntheticIV(key, plainText): the nonce, or
\* aes.NewCipher's error.
CallGenerateSyntheticIV ==
    /\ pc = "generateSyntheticIV"
    /\ pc' = "IVReturned"
    /\ IF ValidKey(enc.key)
       THEN /\ enc' = [enc EXCEPT !.nonce = generateSyntheticIV(enc.key, enc.chunk)]
            /\ encErr' = "nil"
       ELSE /\ encErr' = "ErrKeySize"
            /\ UNCHANGED enc
    /\ UNCHANGED << inData, password, kdf, handles, failed, encOut, sealed, decVars >>

NextIV == CallGenerateSyntheticIV

SpecIV == InitIV /\ [][NextIV]_vars

\* Exclusive or of two bytes, bit by bit.
ByteXor(a, b) ==
    SumSeq([k \in 1..8 |->
              (((a \div Pow2(k - 1)) + (b \div Pow2(k - 1))) % 2) * Pow2(k - 1)], 1)

\* iv is what the base nonce of a first chunk must be under key.
IsBaseNonce(key, chunk, iv) ==
    LET e == BlockEncrypt(key, Zeros(blockSize))
    IN  /\ Len(iv) = nonceSize
        /\ \A j \in 1..nonceSize :
              iv[j] = IF j <= Len(chunk) THEN ByteXor(e[j], chunk[j]) ELSE e[j]

\* C17: base nonce.  generateSyntheticIV(key, chunk) is 12 bytes; byte j is
\* E_key(0^16)[j] XOR chunk[j] where the chunk has a byte j and j is within
\* the first 12, and E_key(0^16)[j] otherwise; nothing after the chunk's
\* 12th byte enters it.  The same holds of the nonce chunk 0 is sealed under.
C17_BaseNonce ==
    /\ (pc = "IVReturned" /\ encErr = "nil")
       => IsBaseNonce(enc.key, enc.chunk, enc.nonce)
    /\ Len(sealed) >= 1
       => IsBaseNonce(enc.key, sealed[1].chunk, sealed[1].nonce)

\* C17 witness: a chunk longer than the nonce went through
\* generateSyntheticIV and changed the cipher block's bytes.
C17_Witness ==
    /\ pc = "IVReturned" /\ encErr = "nil"
    /\ Len(enc.chunk) > nonceSize
    /\ enc.nonce # Take(BlockEncrypt(enc.key, Zeros(blockSize)), nonceSize)

\* The number of frames in file from offset pos on, following the length
\* fields; a frame that does not fit counts for nothing.
RECURSIVE FrameCount(_, _)
FrameCount(file, pos) ==
    IF pos + nonceSize + lenSize > Len(file) THEN 0
    ELSE LET n == Uint32(SubSeq(file, pos + nonceSize + 1, pos + nonceSize + lenSize))
         IN  IF n > Len(file) - (pos + nonceSize + lenSize) THEN 0
             ELSE 1 + FrameCount(file, pos + nonceSize + lenSize + n)

\* C18: frame count.  With full reads, a successful EncryptFile on L bytes
\* writes max(1, ceil(L / chunkSize)) frames: one for the empty file, no
\* empty trailing frame when L is a multiple of the chunk size; no chunk
\* after the first is ever sealed empty.
C18_FrameCount ==
    /\ \A k \in 2..Len(sealed) : Len(sealed[k].chunk) > 0
    /\ (pc = "EncDone" /\ encErr = "nil")
       => LET L == Len(inData)
              N == IF L = 0 THEN 1 ELSE (L + chunkSize - 1) \div chunkSize
          IN  /\ Len(sealed) = N
              /\ FrameCount(encOut, saltSize) = N
              /\ Len(encOut) = saltSize + N * (nonceSize + lenSize + tagSize) + L
              /\ \A k \in 2..N : FrameAt(k).length > tagSize

\* C18 witness: an input of exactly two chunks gave exactly two frames.
C18_Witness ==
    /\ pc = "EncDone" /\ encErr = "nil"
    /\ Len(inData) = 2 * chunkSize
    /\ FrameCount(encOut, saltSize) = 2

\* The calls that come before the key provider's in each operation.
BeforeGetKey == {"os.Open", "os.Create", "rand.Read", "ReadFull(salt)"}

\* C19: salt hand-off.  Neither operation calls the key provider twice, and
\* each has called it once when it returns from any later step.
\* EncryptFile passes the 16-byte salt it generated, and a finished
\* container starts with that salt.  DecryptFile passes bytes 0..15 of its
\* input; on an input of fewer than 16 bytes it returns an error and has
\* not called the provider.
C19_SaltHandoff ==
    /\ Len(enc.provided) <= 1
    /\ Len(dec.provided) <= 1
    /\ (encErr # "pending" /\ failed.enc \notin BeforeGetKey)
       => Len(enc.provided) = 1
    /\ (decErr # "pending" /\ failed.dec \notin BeforeGetKey)
       => Len(dec.provided) = 1
    /\ \A i \in 1..Len(enc.provided) :
          /\ enc.provided[i].salt = enc.salt
          /\ enc.salt \in Salts
          /\ Len(enc.salt) = saltSize
          /\ encErr = "nil" => SubSeq(encOut, 1, saltSize) = enc.provided[i].salt
    /\ \A i \in 1..Len(dec.provided) :
          /\ Len(decIn) >= saltSize
          /\ dec.provided[i].salt = SubSeq(decIn, 1, saltSize)
    /\ (DecReturned /\ Len(decIn) < saltSize)
       => /\ dec.provided = << >>
          /\ decErr \notin {"nil", "pending"}

\* C19 witness: both operations ran to the end, each with one provider
\* call, on the same salt.
C19_Witness ==
    /\ DecReturned /\ decErr = "nil" /\ failed.dec = "none"
    /\ Len(enc.provided) = 1 /\ Len(dec.provided) = 1
    /\ dec.provided[1].salt = enc.provided[1].salt
    /\ dec.provided[1].salt = SubSeq(decIn, 1, saltSize)

\* a is the beginning of b.
Prefix(a, b) == a = << >> \/ (Len(a) <= Len(b) /\ a = SubSeq(b, 1, Len(a)))

\* The frames of chunks k, k+1, ... of data (chunk 0 first) as a run
\* without failure writes them under key, base being chunk 0's nonce.
RECURSIVE RefFrames(_, _, _, _)
RefFrames(key, base, data, k) ==
    LET chunk == ReadAt(data, k * chunkSize, chunkSize)
        nonce == IF k = 0 THEN base
                 ELSE SubSeq(base, 1, nonceSize - counterSize) \o PutUint64(k - 1)
        ct    == Seal(key, nonce, chunk)
    IN  IF k > 0 /\ Len(chunk) = 0 THEN << >>
        ELSE nonce \o PutUint32(Len(ct)) \o ct \o RefFrames(key, base, data, k + 1)

\* The container of data under salt and key; a key aes.NewCipher rejects
\* lets no run go beyond the salt.
RefContainer(salt, key, data) ==
    IF ValidKey(key)
    THEN salt \o RefFrames(key, generateSyntheticIV(key, Take(data, chunkSize)),
                           data, 0)
    ELSE salt

\* The plaintexts of the frames of file from offset pos on, up to the
\* first frame that is incomplete or does not authenticate.
RECURSIVE RefPlain(_, _, _)
RefPlain(key, file, pos) ==
    IF ~ValidKey(key) \/ pos + nonceSize + lenSize > Len(file) THEN << >>
    ELSE LET nonce == SubSeq(file, pos + 1, pos + nonceSize)
             n     == Uint32(SubSeq(file, pos + nonceSize + 1,
                                    pos + nonceSize + lenSize))
             from  == pos + nonceSize + lenSize
         IN  IF n > Len(file) - from THEN << >>
             ELSE LET ct == SubSeq(file, from + 1, from + n)
                  IN  IF OpenOK(key, nonce, ct)
                      THEN Open(key, nonce, ct) \o RefPlain(key, file, from + n)
                      ELSE << >>

\* The operation's output file has been created or truncated by it.
EncCreated ==
    \/ pc \in {"EncSalt", "EncGetKey", "EncWriteSalt", "EncReadFirst", "EncIV",
                "EncWriteNonce0", "EncNewCipher", "EncNewGCM", "EncSeal0",
                "EncWriteLen0", "EncWriteCt0", "EncReadNext", "EncWriteNonce",
                "EncSeal", "EncWriteLen", "EncWriteCt"}
    \/ pc = "EncDone" /\ failed.enc \notin {"os.Open", "os.Create"}

DecCreated ==
    \/ pc \in {"DecReadSalt", "DecGetKey", "DecNewCipher", "DecNewGCM",
                "DecReadNonce", "DecReadLen", "DecReadCt", "DecOpenFrame",
                "DecWrite"}
    \/ pc = "DecDone" /\ failed.dec \notin {"os.Open", "os.Create"}

\* What has been written is the beginning of what is to be written.
OutputsArePrefixes ==
    /\ EncCreated => Prefix(encOut, RefContainer(enc.salt, enc.key, inData))
    /\ DecCreated => Prefix(decOut, RefPlain(dec.key, decIn, saltSize))

\* A step adds bytes at the end of an output or leaves it alone, except
\* the step that creates it; a returned operation's output stays.
OutputsOnlyGrow ==
    /\ pc # "EncCreate" => Prefix(encOut, encOut')
    /\ pc # "DecCreate" => Prefix(decOut, decOut')
    /\ encErr # "pending" => encOut' = encOut
    /\ decErr # "pending" => decOut' = decOut

\* C20: append-only output.  At every point the bytes EncryptFile has
\* written are a prefix of the container a run without failure produces
\* for the same salt, key and input, and the bytes DecryptFile has written
\* are a prefix of the concatenated frame plaintexts; no step, an abort at
\* any write included, rewrites or removes bytes written earlier.
C20_AppendOnly == [](OutputsArePrefixes) /\ [][OutputsOnlyGrow]_vars

\* C20 witness: EncryptFile aborted in the middle of the second frame,
\* after its nonce and part of its length, and what it had written stays.
C20_Witness ==
    /\ encErr = "ErrWrite" /\ failed.enc = "Write(lenBuf)"
    /\ Len(sealed) = 2
    /\ Len(encOut) = Boundary(1) + nonceSize + lenSize - 1
    /\ Prefix(encOut, RefContainer(enc.salt, enc.key, inData))

\* C21: whole-frame truncation is accepted.  A container cut just after
\* its salt or just after any of its frames but the last, read with the
\* right key and no failing call into the environment, makes DecryptFile
\* return nil with exactly the plaintext of the frames that are left.
C21_TruncationAccepted ==
    \A k \in 0..(Len(sealed) - 1) :
        (DecReturned /\ damage.kind = "cut" /\ damage.pos = Boundary(k)
            /\ decPassword = password /\ ~DecEnvFault)
        => /\ decErr = "nil"
           /\ decOut = Chunks(k)
           /\ dec.frames = k

\* C21 witness: a container of three frames lost its last frame and
\* DecryptFile returned nil with the first two chunks.
C21_Witness ==
    /\ DecReturned /\ damage.kind = "cut" /\ Len(sealed) = 3
    /\ damage.pos = Boundary(2)
    /\ decErr = "nil" /\ failed.dec = "none"
    /\ decOut = Chunks(2) /\ decOut # inData

\* C22: decryption is position-blind.  A container put together from the
\* salt and any frames sealed under the derived key (frames of the valid
\* container in another order or repeated, or a frame under a nonce the
\* scheme never produces), read with the right key and no failing call
\* into the environment, makes DecryptFile return nil with the frames'
\* plaintexts in the order of the stream.
C22_PositionBlind ==
    (DecReturned /\ damage.kind = "splice" /\ ~DecEnvFault)
    => /\ decErr = "nil"
       /\ decOut = SpliceChunks(damage.order, 1)
       /\ dec.frames = Len(damage.order)

\* C22 witness: the second frame of a container came first and the first
\* frame second, and DecryptFile returned nil with the chunks swapped.
C22_Witness ==
    /\ DecReturned /\ damage.kind = "splice" /\ damage.order = << 2, 1 >>
    /\ decErr = "nil" /\ failed.dec = "none"
    /\ decOut = sealed[2].chunk \o sealed[1].chunk
    /\ decOut # Chunks(2)

\* C23: write ordering.  EncryptFile's output, once created, holds no
\* byte until the key provider has returned a key: when salt generation
\* or the provider fails the file is there and empty.  DecryptFile's
\* output, once created, holds no byte until a frame has authenticated.
C23_WriteOrdering ==
    /\ (EncCreated /\ encOut # << >>)
       => /\ Len(enc.provided) = 1
          /\ enc.provided[1].outcome # "error"
    /\ failed.enc \in {"rand.Read", "kdf.GetKey"}
       => /\ encOut = << >>
          /\ encErr \in {"ErrRand", "ErrGetKey"}
    /\ (DecCreated /\ dec.frames = 0) => decOut = << >>

\* C23 witness: the provider failed in EncryptFile and the output file
\* that held bytes before is empty.
C23_Witness ==
    /\ encErr = "ErrGetKey" /\ failed.enc = "kdf.GetKey"
    /\ Len(enc.provided) = 1
    /\ encOut = << >> /\ encOut # OldOutput

\* C24 as stated: when opening the input fails the output path keeps its
\* content, and on every later failure (the failure of os.Create among
\* them) the path has been created or truncated and the content is gone.
C24_LaterFailuresTruncate ==
    /\ failed.enc = "os.Open" => encOut = OldOutput
    /\ failed.dec = "os.Open" => decOut = OldOutput
    /\ (encErr # "pending" /\ failed.enc \notin {"none", "os.Open"})
       => encOut # OldOutput
    /\ (decErr # "pending" /\ failed.dec \notin {"none", "os.Open"})
       => decOut # OldOutput

\* C24, amended: when opening the input fails the output path keeps its
\* content, and on every failure after os.Create succeeded the content
\* the path held is gone; the failure of os.Create itself is not such a
\* failure.
C24_OutputUntouched ==
    /\ failed.enc = "os.Open" => encOut = OldOutput
    /\ failed.dec = "os.Open" => decOut = OldOutput
    /\ (encErr # "pending" /\ failed.enc \notin {"none", "os.Open", "os.Create"})
       => /\ encOut # OldOutput
          /\ ~Prefix(OldOutput, encOut)
    /\ (decErr # "pending" /\ failed.dec \notin {"none", "os.Open", "os.Create"})
       => /\ decOut # OldOutput
          /\ ~Prefix(OldOutput, decOut)

\* C24 witness: EncryptFile could not open its input and the output path
\* holds what it held.
C24_Witness ==
    /\ failed.enc = "os.Open" /\ encErr = "ErrNotExist"
    /\ encOut = OldOutput /\ Len(encOut) > 0

\* The number of chunks EncryptFile seals for data.
NumChunks(data) ==
    IF Len(data) = 0 THEN 1 ELSE (Len(data) + chunkSize - 1) \div chunkSize

\* The nonce of chunk k (the first is 1) in a run on data under key.
RefNonce(key, data, k) ==
    LET base == generateSyntheticIV(key, Take(data, chunkSize))
    IN  IF k = 1 THEN base
        ELSE SubSeq(base, 1, nonceSize - counterSize) \o PutUint64(k - 2)

\* C25: nonce sequence determinism.  The nonces of a run are those of any
\* run under the same key on a plaintext with the same first 12 bytes, for
\* every chunk index the two share; and a finished container is the one
\* determined by salt, key and plaintext.  (Stated of EncryptFile while it
\* runs and when it has returned; nothing it used changes afterwards.)
C25_NonceDeterminism ==
    /\ (EncCreated /\ sealed # << >>)
       => \A p \in PlainTexts :
             Take(p, nonceSize) = Take(inData, nonceSize)
             => \A k \in 1..Min(Len(sealed), NumChunks(p)) :
                   sealed[k].nonce = RefNonce(enc.key, p, k)
    /\ (pc = "EncDone" /\ encErr = "nil")
       => encOut = RefContainer(enc.salt, enc.key, inData)

\* C25 witness: a run of three chunks finished, and a shorter plaintext
\* with the same first 12 bytes exists whose run has the same nonces.
C25_Witness ==
    /\ pc = "EncDone" /\ encErr = "nil" /\ Len(sealed) = 3
    /\ \E p \in PlainTexts :
          /\ p # inData
          /\ NumChunks(p) = 2
          /\ Take(p, nonceSize) = Take(inData, nonceSize)
          /\ \A k \in 1..2 : sealed[k].nonce = RefNonce(enc.key, p, k)

\* ---- DefaultGetKey called on its own ----

\* What may be typed at the prompt.
TypedPasswords == Passwords \cup {Text(n) : n \in 1..nonceSize}

InitKey ==
    /\ pc = "MakeRaw"
    /\ inData = << >>
    /\ password \in TypedPasswords
    /\ handles = {}
    /\ failed = [enc |-> "none", dec |-> "none"]
    /\ encOut = OldOutput
    /\ enc = [salt |-> << >>, key |-> << >>, pos |-> 0, chunk |-> << >>,
              nonce |-> << >>, ct |-> << >>, lenBuf |-> << >>,
              nonceCounter |-> 0, provided |-> << >>]
    /\ encErr = "pending"
    /\ sealed = << >>
    /\ damage = [kind |-> "none", pos |-> 0, bit |-> 0, order |-> << >>]
    /\ decIn = << >>
    /\ decPassword = << >>
    /\ decOut = OldOutput
    /\ dec = [salt |-> << >>, key |-> << >>, pos |-> 0, nonce |-> << >>,
              lenBuf |-> << >>, ct |-> << >>, pt |-> << >>,
              opens |-> 0, frames |-> 0, ctCap |-> 0, provided |-> << >>]
    /\ decErr = "pending"
    /\ \E s \in Salts : kdf = [KdfIdle EXCEPT !.salt = s]

\* What DefaultGetKey's steps leave alone.
KeyFrame ==
    UNCHANGED << inData, password, handles, failed, encVars, decVars >>

\* state, err := term.MakeRaw(stdin); if err != nil { return nil, err }
MakeRaw ==
    /\ pc = "MakeRaw"
    /\ \/ /\ kdf' = [kdf EXCEPT !.term = "raw", !.err = "nil"]
          /\ pc' = "ReadPassword"
       \/ /\ pc' = "KeyReturned"
          /\ kdf' = [kdf EXCEPT !.err = "ErrMakeRaw", !.ret = "ErrMakeRaw",
                                !.key = << >>, !.failed = "term.MakeRaw"]
    /\ KeyFrame

\* if password, err = term.ReadPassword(stdin); err != nil { return nil, err }
ReadPassword ==
    /\ pc = "ReadPassword"
    /\ \/ /\ kdf' = [kdf EXCEPT !.password = password, !.err = "nil"]
          /\ pc' = "Restore"
       \/ /\ pc' = "KeyReturned"
          /\ kdf' = [kdf EXCEPT !.err = "ErrReadPassword",
                                !.ret = "ErrReadPassword",
                                !.key = << >>, !.failed = "term.ReadPassword"]
    /\ KeyFrame

\* if restoreErr := term.Restore(stdin, state); restoreErr != nil {
\* return nil, err }; return DeriveKey(password, salt), nil
\* (the error returned in the branch is err, not restoreErr).
Restore ==
    /\ pc = "Restore"
    /\ pc' = "KeyReturned"
    /\ \/ kdf' = [kdf EXCEPT !.term = "cooked", !.restores = @ + 1,
                             !.key = DeriveKey(kdf.password, kdf.salt),
                             !.ret = "nil"]
       \/ kdf' = [kdf EXCEPT !.restores = @ + 1,
                             !.key = << >>, !.ret = kdf.err,
                             !.failed = "term.Restore"]
    /\ KeyFrame

DefaultGetKey == MakeRaw \/ ReadPassword \/ Restore

SpecKey == InitKey /\ [][DefaultGetKey]_vars

\* C26: DefaultGetKey's outcome is well-formed.  It returns a 32-byte key
\* with a nil error or a nil key with a non-nil error, and when
\* term.MakeRaw succeeded term.Restore has been called before it returns,
\* whatever failed afterwards.
C26_WellFormedOutcome ==
    pc = "KeyReturned"
    => /\ \/ kdf.ret = "nil" /\ Len(kdf.key) = keyLen
          \/ kdf.ret # "nil" /\ kdf.key = << >>
       /\ kdf.failed # "term.MakeRaw" => kdf.restores >= 1

====
